---- MODULE Spec2Model ----
(***************************************************************************)
(* Event-dispatch and module-lifecycle core of the OCRE container runtime  *)
(* (src/ocre_common_optimized.c).  Threads are the EVENT_THREAD_POOL_SIZE  *)
(* event processor threads and a bounded number of host threads calling    *)
(* the public API.  A step of a thread is the code between two points at   *)
(* which another thread can observe or change shared state: a critical     *)
(* section under one mutex is one step, and code that touches shared       *)
(* memory without the mutex that guards it is a step of its own.           *)
(***************************************************************************)
EXTENDS Integers, Sequences, FiniteSets, TLC

\* ------------------------------------------------------------------ bounds
MaxHandles == 2
MaxNodes == 2
NumClients == 2
MaxPosts == 2
MaxCalls == 5
MaxFill == 66

\* ------------------------------------------------------- program constants
NULL == 0
EVENT_BUFFER_SIZE == 1024
EVENT_THREAD_POOL_SIZE == 2
EVENT_BATCH_SIZE == 16
MAX_DISPATCH_RETRIES == 3
OCRE_RESOURCE_TYPE_TIMER == 0
OCRE_RESOURCE_TYPE_GPIO == 1
OCRE_RESOURCE_TYPE_SENSOR == 2
OCRE_RESOURCE_TYPE_COUNT == 3
\* sizeof(wasm_event_t): four uint32_t fields
SIZEOF_WASM_EVENT == 16

Handles == 1..MaxHandles
NodeAddrs == 1..MaxNodes
Workers == 0..(EVENT_THREAD_POOL_SIZE - 1)
Clients == 1..NumClients
ResourceTypes == 0..(OCRE_RESOURCE_TYPE_COUNT - 1)
\* a resolved guest function (wasm_function_inst_t); NULL is "unbound"
Funcs == {1}

VARIABLES
    common_initialized,    \* static bool common_initialized
    event_system_running,  \* static volatile bool event_system_running
    event_sem,             \* count of k_sem event_sem
    event_ring,            \* the records held by event_ring, oldest first
    module_registry,       \* sys_slist_t of module_node_t, by node address
    heap,                  \* the module_node_t at each address k_malloc can return
    exec_envs,             \* the execution environments created and not destroyed
    current_module_tls,    \* __thread current_module_tls, one slot per thread
    worker,                \* locals and position of each event processor thread
    client,                \* locals and position of each host thread in an API call
    posts,                 \* number of records ever written to event_ring
    unregistered,          \* the handles whose ocre_unregister_module freed a node
    api_calls,             \* number of API calls the host threads have made
    cleanup_handlers,      \* static cleanup_handlers[].handler, by resource type
    cleanup_log,           \* the handler invocations of the latest module cleanup
    expected_size,         \* registrations minus unregistrations of registered
                           \* handles since the registry was last emptied
    k_mutex,               \* owner and lock_count of each core mutex
    thread_code,           \* the mutex operations, guest calls, sleeps and
                           \* dispatcher accesses a thread has still to make
                           \* in the function it is in, the current one first
    observed               \* what the callers have seen, kept when observed.on:
                           \* the latest value returned by an API call, the
                           \* records posted and the records taken out of
                           \* event_ring, each in order

vars == <<common_initialized, event_system_running, event_sem, event_ring,
          module_registry, heap, exec_envs, current_module_tls, worker, client,
          posts, unregistered, api_calls, cleanup_handlers, cleanup_log,
          expected_size, k_mutex, thread_code, observed>>

\* ----------------------------------------------------------------- helpers
\* a ring_buf_get that hands out all it holds, whatever the size asked for
WholeRing(a, b) == a

Min(a, b) == IF a < b THEN a ELSE b

is_valid_event_type(type) == type < OCRE_RESOURCE_TYPE_COUNT

is_valid_module_instance(module_inst) == module_inst # NULL

\* k_free'd (or never allocated) memory: its content is not meaningful.
\* last_activity holds, in place of the value of k_uptime_get_32(), the place
\* that wrote it last.  incs, decs and lost are not fields of the node: they
\* count, by resource type, the increments and the decrements applied to the
\* node and the decrements that found its counter at zero.
FreeNode ==
    [live |-> FALSE, inst |-> NULL, exec_env |-> NULL, in_use |-> FALSE,
     last_activity |-> "none",
     resource_count |-> [t \in ResourceTypes |-> 0],
     dispatchers |-> [t \in ResourceTypes |-> NULL],
     incs |-> [t \in ResourceTypes |-> 0],
     decs |-> [t \in ResourceTypes |-> 0],
     lost |-> [t \in ResourceTypes |-> 0]]

\* the node as ocre_register_module initialises it at address n
NewNode(n, module_inst) ==
    [FreeNode EXCEPT !.live = TRUE, !.inst = module_inst, !.exec_env = n,
                     !.in_use = TRUE, !.last_activity = "registered"]

\* SYS_SLIST_FOR_EACH_CONTAINER scan: the first node whose inst matches
RECURSIVE ScanList(_, _)
ScanList(list, module_inst) ==
    IF list = <<>> THEN NULL
    ELSE IF heap[Head(list)].inst = module_inst THEN Head(list)
    ELSE ScanList(Tail(list), module_inst)

find_module_node(module_inst) == ScanList(module_registry, module_inst)

RECURSIVE IndexOf(_, _)
IndexOf(list, n) ==
    IF list = <<>> THEN 0
    ELSE IF Head(list) = n THEN 1
    ELSE LET k == IndexOf(Tail(list), n) IN IF k = 0 THEN 0 ELSE k + 1

\* sys_slist_remove(list, NULL, node): with prev_node NULL the list head becomes
\* node->next (and the tail follows the head when node was the tail), so the
\* list keeps exactly the nodes that came after node
sys_slist_remove_prev_null(list, n) ==
    LET k == IndexOf(list, n) IN
    IF k = 0 THEN list ELSE SubSeq(list, k + 1, Len(list))

InRegistry(n) == \E k \in 1..Len(module_registry) : module_registry[k] = n

\* what a load through a pointer yields: the stored value, or anything when the
\* pointer dangles
Load(stale, value, domain) == IF stale # "no" THEN domain ELSE {value}

\* a store through a pointer: it lands in whatever now lives at that address
Store(n, field, value) ==
    IF heap[n].live THEN [heap EXCEPT ![n][field] = value] ELSE heap

\* every thread holding the address of a node that is freed now holds a
\* dangling pointer; stale names the call that freed the node ("no": none did)
MarkStale(threads, freed, by) ==
    [x \in DOMAIN threads |->
        IF threads[x].node \in freed
        THEN [threads[x] EXCEPT !.stale = by]
        ELSE threads[x]]

\* ------------------------------------------------------------- thread state
\* calls, call_after and outcome are not locals of the thread: they count the
\* guest calls made for the current event, name the call that had freed the
\* node when the guest call in progress started, and give the way the last
\* event left the for loop; stale is not a local either
IdleWorker(pc) ==
    [pc |-> pc, batch |-> <<>>, i |-> 0, node |-> NULL, stale |-> "no",
     dispatcher |-> NULL, args |-> <<>>, result |-> FALSE, retry_count |-> 0,
     calls |-> 0, call_after |-> "no", outcome |-> "none"]

IdleClient ==
    [pc |-> "idle", op |-> "none", h |-> NULL, t |-> 0, fn |-> NULL,
     node |-> NULL, stale |-> "no", i |-> 0]


\* current_module_tls without __thread: one slot for all threads
tls_slot_shared(w) == 0

\* the thread-local slot a thread's accesses to current_module_tls go to
tls_slot(w) == w

\* ---------------------------------------------------------------- observation
\* no call has returned yet
NoReturn ==
    [seq |-> 0, c |-> NULL, op |-> "none", code |-> "none", cause |-> "none"]

\* nothing is recorded
NotObserved ==
    [on |-> FALSE, ret |-> NoReturn, posted |-> <<>>, removed |-> <<>>,
     handlers |-> <<>>]

\* everything is recorded from now on
Observing == [NotObserved EXCEPT !.on = TRUE]

\* call op of host thread c returns code; cause names the library call whose
\* failure made it fail ("none": no library call failed) and seq numbers the
\* returns
WithReturn(o, c, op, code, cause) ==
    IF o.on THEN [o EXCEPT !.ret = [seq |-> @.seq + 1, c |-> c, op |-> op,
                                     code |-> code, cause |-> cause]]
    ELSE o

\* record is written to event_ring
WithPosted(o, record) ==
    IF o.on THEN [o EXCEPT !.posted = Append(@, record)] ELSE o

\* records are taken out of event_ring
WithHandler(o, type, handler) ==
    IF o.on THEN [o EXCEPT !.handlers = Append(@, [type |-> type, handler |-> handler])]
    ELSE o

WithRemoved(o, records) ==
    IF o.on THEN [o EXCEPT !.removed = @ \o records] ELSE o

\* ------------------------------------------------------------------ mutexes
\* the core mutexes: event_mutex (the queue mutex), registry_mutex and the
\* ctx_mutex of each module node
event_mutex == <<"event_mutex", NULL>>
registry_mutex == <<"registry_mutex", NULL>>
ctx_mutex(n) == <<"ctx_mutex", n>>
NoMutex == <<"none", NULL>>

Mutexes == {event_mutex, registry_mutex} \cup {ctx_mutex(n) : n \in NodeAddrs}

\* a k_mutex nobody holds
FreeMutex == [owner |-> NULL, lock_count |-> 0]

\* the threads that take the core mutexes: the event processor threads and the
\* host threads, numbered from 1 (NULL is "no owner")
WorkerThread(w) == w + 1
HostThread(c) == EVENT_THREAD_POOL_SIZE + c
Threads == {WorkerThread(w) : w \in Workers} \cup {HostThread(c) : c \in Clients}

\* a thread that is in none of the functions below
Returned == <<>>

\* the state before ocre_common_init is first called
CoreDown ==
    /\ common_initialized = FALSE
    /\ event_system_running = FALSE
    /\ event_sem = 0
    /\ event_ring = <<>>
    /\ module_registry = <<>>
    /\ heap = [n \in NodeAddrs |-> FreeNode]
    /\ exec_envs = {}
    /\ current_module_tls = [w \in Workers |-> NULL]
    /\ worker = [w \in Workers |-> IdleWorker("none")]
    /\ client = [c \in Clients |-> IdleClient]
    /\ posts = 0
    /\ unregistered = {}
    /\ api_calls = 0
    /\ cleanup_handlers = [t \in ResourceTypes |-> NULL]
    /\ cleanup_log = <<>>
    /\ k_mutex = [m \in Mutexes |-> FreeMutex]
    /\ thread_code = [t \in Threads |-> Returned]
    /\ expected_size = 0

Init == CoreDown /\ observed = NotObserved


\* ------------------------------------------------- event processing threads
\* the argument vector process_single_event builds for the guest function
ArgsOf(event) ==
    IF event.type = OCRE_RESOURCE_TYPE_TIMER THEN <<event.id>>
    ELSE IF event.type = OCRE_RESOURCE_TYPE_GPIO THEN <<event.id, event.state>>
    ELSE <<event.id, event.port, event.state>>

\* ocre_get_current_module() called on thread w
ocre_get_current_module(w) ==
    IF current_module_tls[tls_slot(w)] # NULL
    THEN heap[current_module_tls[tls_slot(w)]].inst
    ELSE NULL

\* target selection by the owner the producer named
TargetHandleOwner(w) == worker[w].batch[worker[w].i + 1].posted_for

\* the handle the worker passes to find_module_node for a drained event
TargetHandle(w) == ocre_get_current_module(w)

\* current_module_tls cleared on the success path only
TlsKeptOnFailure(w, result) ==
    IF result THEN NULL ELSE current_module_tls[tls_slot(w)]

\* the value process_single_event leaves in current_module_tls after the retry loop
TlsAfterDispatch(w, result) == NULL

\* the retry loop with <= in place of <
RetryLoopOffByOne(result, retry_count) ==
    ~result /\ retry_count <= MAX_DISPATCH_RETRIES

\* while (!result && retry_count < MAX_DISPATCH_RETRIES)
RetryLoopContinues(result, retry_count) ==
    ~result /\ retry_count < MAX_DISPATCH_RETRIES

\* process_single_event returns: the for loop moves to the next event
ReturnToLoop(w, outcome) ==
    [worker[w] EXCEPT !.pc = "for_each", !.i = @ + 1, !.node = NULL,
                      !.stale = "no", !.outcome = outcome]

\* while (event_system_running): where the thread goes from the loop test
LoopTest == IF event_system_running THEN "sem" ELSE "exited"

\* wasm_runtime_init_thread_env() at thread entry, which touches nothing
\* shared, and the first test of the running flag
WorkerStart(w) ==
    /\ worker[w].pc = "start"
    /\ \E ok \in BOOLEAN :
          worker' = [worker EXCEPT ![w].pc = IF ok THEN LoopTest ELSE "exited"]
    /\ UNCHANGED <<common_initialized, event_system_running, event_sem, event_ring,
                   module_registry, heap, exec_envs, current_module_tls, client,
                   posts, unregistered, api_calls>>
    /\ UNCHANGED <<cleanup_handlers, cleanup_log, expected_size>>
    /\ UNCHANGED <<k_mutex, thread_code>>
    /\ UNCHANGED observed

\* k_sem_take(&event_sem, K_FOREVER), then the running flag is read again
WorkerTake(w) ==
    /\ worker[w].pc = "sem"
    /\ event_sem > 0
    /\ event_sem' = event_sem - 1
    /\ worker' = [worker EXCEPT
                    ![w].pc = IF event_system_running THEN "drain" ELSE "exited"]
    /\ UNCHANGED <<common_initialized, event_system_running, event_ring,
                   module_registry, heap, exec_envs, current_module_tls, client,
                   posts, unregistered, api_calls>>
    /\ UNCHANGED <<cleanup_handlers, cleanup_log, expected_size>>
    /\ UNCHANGED <<k_mutex, thread_code>>
    /\ UNCHANGED observed

\* ring_buf_get of up to sizeof(event_batch) bytes under event_mutex
WorkerDrain(w) ==
    /\ worker[w].pc = "drain"
    /\ LET bytes_read == Min(Len(event_ring) * SIZEOF_WASM_EVENT,
                             EVENT_BATCH_SIZE * SIZEOF_WASM_EVENT)
           events_count == bytes_read \div SIZEOF_WASM_EVENT
       IN /\ worker' = [worker EXCEPT
                          ![w] = [IdleWorker("for_each") EXCEPT
                                    !.batch = SubSeq(event_ring, 1, events_count)]]
          /\ event_ring' = SubSeq(event_ring, events_count + 1, Len(event_ring))
          /\ observed' = WithRemoved(observed, SubSeq(event_ring, 1, events_count))
    /\ UNCHANGED <<common_initialized, event_system_running, event_sem,
                   module_registry, heap, exec_envs, current_module_tls, client,
                   posts, unregistered, api_calls>>
    /\ UNCHANGED <<cleanup_handlers, cleanup_log, expected_size>>
    /\ UNCHANGED <<k_mutex, thread_code>>

\* one step of the for loop over the batch, process_single_event included
ForEachEvent(w) ==
    LET me == worker[w]
        slot == tls_slot(w)
        keep == <<common_initialized, event_system_running, event_sem, event_ring,
                  module_registry, exec_envs, client, posts, unregistered, api_calls,
                  cleanup_handlers, cleanup_log, expected_size, k_mutex,
                  thread_code, observed>>
    IN
    /\ me.pc \in {"for_each", "pse_entry", "pse_call", "in_guest", "sleep", "pse_stamp"}
    /\ UNCHANGED keep
    /\ CASE me.pc = "for_each" ->
            \* for (i < events_count): find the target under registry_mutex
            IF me.i < Len(me.batch)
            THEN LET target_node == find_module_node(TargetHandle(w)) IN
                 /\ worker' = [worker EXCEPT ![w] =
                        IF target_node = NULL
                        THEN [me EXCEPT !.i = @ + 1, !.calls = 0, !.result = FALSE,
                                        !.retry_count = 0, !.dispatcher = NULL,
                                        !.args = <<>>, !.outcome = "no_target"]
                        ELSE [me EXCEPT !.pc = "pse_entry", !.node = target_node,
                                        !.stale = "no", !.calls = 0,
                                        !.result = FALSE, !.retry_count = 0,
                                        !.dispatcher = NULL, !.args = <<>>,
                                        !.outcome = "none"]]
                 /\ UNCHANGED <<heap, current_module_tls>>
            ELSE \* the batch is done: back to the test of the running flag
                 /\ worker' = [worker EXCEPT ![w] = IdleWorker(LoopTest)]
                 /\ UNCHANGED <<heap, current_module_tls>>
         [] me.pc = "pse_entry" ->
            \* process_single_event up to the retry loop
            LET event == me.batch[me.i + 1] IN
            /\ UNCHANGED heap
            /\ IF ~is_valid_event_type(event.type)
               THEN /\ worker' = [worker EXCEPT ![w] = ReturnToLoop(w, "EINVAL")]
                    /\ UNCHANGED current_module_tls
               ELSE \E dispatcher \in Load(me.stale,
                                           heap[me.node].dispatchers[event.type],
                                           Funcs \cup {NULL}),
                       exec_env \in Load(me.stale, heap[me.node].exec_env,
                                         {NULL, me.node}) :
                      IF dispatcher = NULL
                      THEN /\ worker' = [worker EXCEPT ![w] = ReturnToLoop(w, "ENOENT")]
                           /\ UNCHANGED current_module_tls
                      ELSE IF exec_env = NULL
                      THEN /\ worker' = [worker EXCEPT ![w] = ReturnToLoop(w, "EINVAL")]
                           /\ UNCHANGED current_module_tls
                      ELSE /\ worker' = [worker EXCEPT ![w] =
                                  [me EXCEPT !.pc = "pse_call",
                                             !.dispatcher = dispatcher,
                                             !.args = ArgsOf(event),
                                             !.result = FALSE,
                                             !.retry_count = 0]]
                           /\ current_module_tls' =
                                  [current_module_tls EXCEPT ![slot] = me.node]
         [] me.pc = "pse_call" ->
            \* the retry loop's test; wasm_runtime_call_wasm starts when it holds
            /\ UNCHANGED heap
            /\ IF RetryLoopContinues(me.result, me.retry_count)
               THEN /\ worker' = [worker EXCEPT ![w] =
                           [me EXCEPT !.pc = "in_guest", !.calls = @ + 1,
                                      !.call_after = me.stale]]
                    /\ UNCHANGED current_module_tls
               ELSE /\ current_module_tls' =
                           [current_module_tls EXCEPT
                               ![slot] = TlsAfterDispatch(w, me.result)]
                    /\ worker' = [worker EXCEPT ![w] =
                           IF me.result
                           THEN [me EXCEPT !.pc = "pse_stamp"]
                           ELSE ReturnToLoop(w, "EFAULT")]
         [] me.pc = "in_guest" ->
            \* the guest function returns; a failure clears the exception
            /\ UNCHANGED <<heap, current_module_tls>>
            /\ \E result \in BOOLEAN :
                  worker' = [worker EXCEPT ![w] =
                      IF result
                      THEN [me EXCEPT !.pc = "pse_call", !.result = TRUE,
                                      !.call_after = "no"]
                      ELSE [me EXCEPT !.pc = "sleep", !.result = FALSE,
                                      !.retry_count = @ + 1, !.call_after = "no"]]
         [] me.pc = "sleep" ->
            \* k_sleep(K_MSEC(1)) returns
            /\ UNCHANGED <<heap, current_module_tls>>
            /\ worker' = [worker EXCEPT ![w].pc = "pse_call"]
         [] me.pc = "pse_stamp" ->
            \* last_activity is written under ctx_mutex, then return 0
            /\ heap' = Store(me.node, "last_activity", "dispatched")
            /\ worker' = [worker EXCEPT ![w] = ReturnToLoop(w, "ok")]
            /\ UNCHANGED current_module_tls

event_processor_thread(w) ==
    \/ WorkerStart(w)
    \/ WorkerTake(w)
    \/ WorkerDrain(w)
    \/ ForEachEvent(w)


\* ------------------------------------------------------- resource cleanup
\* a cleanup handler (ocre_cleanup_handler_t); NULL is "none registered".  The
\* handler calls ocre_decrement_resource_count(module_inst, type) for its type.
Handlers == {1}

\* an increment that adds two
IncrementTwice(hp, n, type) ==
    [hp EXCEPT ![n].resource_count[type] = @ + 2, ![n].incs[type] = @ + 1]

\* node->ctx.resource_count[type]++ under the node's ctx_mutex
IncrementCount(hp, n, type) ==
    [hp EXCEPT ![n].resource_count[type] = @ + 1, ![n].incs[type] = @ + 1]

\* if (node->ctx.resource_count[type] > 0) node->ctx.resource_count[type]--
DecrementCount(hp, n, type) ==
    IF hp[n].resource_count[type] > 0
    THEN [hp EXCEPT ![n].resource_count[type] = @ - 1, ![n].decs[type] = @ + 1]
    ELSE [hp EXCEPT ![n].decs[type] = @ + 1, ![n].lost[type] = @ + 1]

\* the cleanup placed after the removal of the node
RegistryAfterRemove(list, n) == sys_slist_remove_prev_null(list, n)

\* the registry as the cleanup handlers find it in ocre_unregister_module:
\* ocre_cleanup_module_resources is called before sys_slist_remove
RegistryAtCleanup(list, n) == list

\* the for loop of ocre_cleanup_module_resources from index i on: one record
\* for each handler invoked, with its argument and what the handler finds
\* (module_inst in the registry, its execution environment not destroyed)
RECURSIVE CleanupFrom(_, _, _, _)
CleanupFrom(i, module_inst, list, envs) ==
    IF i >= OCRE_RESOURCE_TYPE_COUNT THEN <<>>
    ELSE LET n == ScanList(list, module_inst)
             call == [type |-> i, handler |-> cleanup_handlers[i],
                      arg |-> module_inst, found |-> n # NULL,
                      env_alive |-> n # NULL /\ heap[n].exec_env \in envs]
         IN (IF cleanup_handlers[i] # NULL THEN <<call>> ELSE <<>>)
            \o CleanupFrom(i + 1, module_inst, list, envs)

ocre_cleanup_module_resources(module_inst, list, envs) ==
    IF ~is_valid_module_instance(module_inst) THEN <<>>
    ELSE CleanupFrom(0, module_inst, list, envs)

\* the cleanups of ocre_common_shutdown: each node is cleaned up, its
\* environment destroyed and the node removed before the next one is
RECURSIVE ShutdownCleanup(_, _)
ShutdownCleanup(list, envs) ==
    IF list = <<>> THEN <<>>
    ELSE ocre_cleanup_module_resources(heap[Head(list)].inst, list, envs)
         \o ShutdownCleanup(Tail(list), envs \ {heap[Head(list)].exec_env})

\* ------------------------------------------------------------ host threads
Range(list) == {list[k] : k \in 1..Len(list)}

Returns(c, threads) == [threads EXCEPT ![c] = IdleClient]

\* a shutdown without its first test
ShutdownNeverSkipped(initialized) == FALSE

\* if (!common_initialized) return; the first test of ocre_common_shutdown
ShutdownSkipped(initialized) == ~initialized

\* ocre_common_init(): one step (its primitives are initialised before any
\* thread it creates can run); core_thread_create fails for thread `created`
\* when created < EVENT_THREAD_POOL_SIZE.  A thread is created only in a slot
\* whose previous thread has ended.
ocre_common_init(c) ==
    /\ client[c].pc = "idle"
    /\ api_calls < MaxCalls
    /\ api_calls' = api_calls + 1
    /\ IF common_initialized
       THEN /\ client' = Returns(c, client)
            /\ observed' = WithReturn(observed, c, "init", "0", "none")
            /\ UNCHANGED <<common_initialized, event_system_running, event_sem,
                           event_ring, module_registry, worker, cleanup_handlers,
                           expected_size>>
       ELSE /\ \A w \in Workers : worker[w].pc \in {"none", "exited"}
            /\ \E created \in 0..EVENT_THREAD_POOL_SIZE :
                 /\ module_registry' = <<>>
                 /\ expected_size' = 0
                 /\ event_ring' = <<>>
                 /\ cleanup_handlers' = [t \in ResourceTypes |-> NULL]
                 /\ event_sem' = 0
                 \* on failure ocre_common_shutdown() is called (309) with
                 \* common_initialized still false
                 /\ event_system_running' =
                       (created = EVENT_THREAD_POOL_SIZE
                        \/ ShutdownSkipped(common_initialized))
                 /\ worker' = [w \in Workers |->
                                  IF w < created THEN IdleWorker("start")
                                  ELSE worker[w]]
                 /\ common_initialized' = (created = EVENT_THREAD_POOL_SIZE)
                 /\ client' = Returns(c, client)
                 /\ observed' =
                       IF created = EVENT_THREAD_POOL_SIZE
                       THEN WithReturn(observed, c, "init", "0", "none")
                       ELSE WithReturn(observed, c, "init", "ret",
                                       "core_thread_create")
    /\ UNCHANGED <<heap, exec_envs, current_module_tls, posts, unregistered,
                   cleanup_log>>
    /\ UNCHANGED <<k_mutex, thread_code>>

\* ocre_common_shutdown(): the test and the clearing of the running flag
ShutdownBegin(c) ==
    /\ client[c].pc = "idle"
    /\ api_calls < MaxCalls
    /\ api_calls' = api_calls + 1
    /\ IF ShutdownSkipped(common_initialized)
       THEN /\ client' = Returns(c, client)
            /\ observed' = WithReturn(observed, c, "shutdown", "void",
                                      "not_initialized")
            /\ UNCHANGED event_system_running
       ELSE /\ event_system_running' = FALSE
            /\ UNCHANGED observed
            /\ client' = [client EXCEPT ![c].pc = "sd_give", ![c].op = "shutdown",
                                        ![c].i = 0]
    /\ UNCHANGED <<common_initialized, event_sem, event_ring, module_registry, heap,
                   exec_envs, current_module_tls, worker, posts, unregistered>>
    /\ UNCHANGED <<cleanup_handlers, cleanup_log, expected_size>>
    /\ UNCHANGED <<k_mutex, thread_code>>

\* a wake-up loop that stops one permit short
WakeLoopShort(i) == i < EVENT_THREAD_POOL_SIZE - 1

\* for (int i = 0; i < EVENT_THREAD_POOL_SIZE; i++): the test of the wake-up loop
WakeLoopContinues(i) == i < EVENT_THREAD_POOL_SIZE

\* one k_sem_give of the wake-up loop, i++ and the loop test
ShutdownGive(c) ==
    /\ client[c].pc = "sd_give"
    /\ event_sem' = event_sem + 1
    /\ client' = [client EXCEPT
                    ![c].i = @ + 1,
                    ![c].pc = IF WakeLoopContinues(client[c].i + 1)
                              THEN "sd_give" ELSE "sd_clean"]
    /\ UNCHANGED <<common_initialized, event_system_running, event_ring,
                   module_registry, heap, exec_envs, current_module_tls, worker,
                   posts, unregistered, api_calls>>
    /\ UNCHANGED <<cleanup_handlers, cleanup_log, expected_size>>
    /\ UNCHANGED <<k_mutex, thread_code>>
    /\ UNCHANGED observed

\* after the sleeps: every node is cleaned up, its environment destroyed, the
\* node removed and freed under registry_mutex; then common_initialized = false
ShutdownClean(c) ==
    /\ client[c].pc = "sd_clean"
    /\ LET freed == Range(module_registry) IN
       /\ exec_envs' = exec_envs \ {heap[n].exec_env : n \in freed}
       /\ heap' = [n \in NodeAddrs |-> IF n \in freed THEN FreeNode ELSE heap[n]]
       /\ worker' = MarkStale(worker, freed, "shutdown")
       /\ client' = Returns(c, MarkStale(client, freed, "shutdown"))
    /\ module_registry' = <<>>
    /\ expected_size' = 0
    /\ cleanup_log' = ShutdownCleanup(module_registry, exec_envs)
    /\ common_initialized' = FALSE
    /\ UNCHANGED <<event_system_running, event_sem, event_ring, current_module_tls,
                   posts, unregistered, api_calls, cleanup_handlers>>
    /\ UNCHANGED <<k_mutex, thread_code>>
    /\ observed' = WithReturn(observed, c, "shutdown", "void", "none")

\* the value ocre_register_module(module_inst) returns when called in the
\* current state and the library call `failed` fails ("none": none does)
ocre_register_module_result(module_inst, failed) ==
    IF ~is_valid_module_instance(module_inst) THEN "-EINVAL"
    ELSE IF ~common_initialized THEN "-ENODEV"
    ELSE IF failed = "k_malloc" THEN "-ENOMEM"
    ELSE IF failed = "wasm_runtime_create_exec_env" THEN "-ENOMEM"
    ELSE "0"

\* ocre_register_module up to the append: the tests, k_malloc, the node's
\* initialisation and wasm_runtime_create_exec_env (the node is private so far)
RegisterBegin(c, module_inst) ==
    /\ client[c].pc = "idle"
    /\ api_calls < MaxCalls
    /\ api_calls' = api_calls + 1
    /\ IF ~is_valid_module_instance(module_inst) \/ ~common_initialized
       THEN /\ client' = Returns(c, client)
            /\ observed' = WithReturn(observed, c, "register_module",
                      ocre_register_module_result(module_inst, "none"), "none")
            /\ UNCHANGED <<heap, exec_envs>>
       ELSE \/ \* k_malloc returns NULL, or the environment is not created and
               \* the node is freed again
               \E failed \in {"k_malloc", "wasm_runtime_create_exec_env"} :
                  /\ client' = Returns(c, client)
                  /\ observed' = WithReturn(observed, c, "register_module",
                            ocre_register_module_result(module_inst, failed),
                            failed)
                  /\ UNCHANGED <<heap, exec_envs>>
            \/ \E n \in NodeAddrs :
                 \* k_malloc returns the lowest free address
                 /\ ~heap[n].live
                 /\ \A k \in NodeAddrs : k < n => heap[k].live
                 /\ heap' = [heap EXCEPT ![n] = NewNode(n, module_inst)]
                 /\ exec_envs' = exec_envs \cup {n}
                 /\ client' = [client EXCEPT ![c].pc = "reg_append",
                                             ![c].op = "register_module",
                                             ![c].h = module_inst,
                                             ![c].node = n]
                 /\ UNCHANGED observed
    /\ UNCHANGED <<common_initialized, event_system_running, event_sem, event_ring,
                   module_registry, current_module_tls, worker, posts, unregistered>>
    /\ UNCHANGED <<cleanup_handlers, cleanup_log, expected_size>>
    /\ UNCHANGED <<k_mutex, thread_code>>

\* sys_slist_append under registry_mutex
RegisterAppend(c) ==
    /\ client[c].pc = "reg_append"
    /\ module_registry' = Append(module_registry, client[c].node)
    /\ client' = Returns(c, client)
    /\ UNCHANGED <<common_initialized, event_system_running, event_sem, event_ring,
                   heap, exec_envs, current_module_tls, worker, posts, unregistered, api_calls>>
    /\ expected_size' = expected_size + 1
    /\ UNCHANGED <<cleanup_handlers, cleanup_log>>
    /\ UNCHANGED <<k_mutex, thread_code>>
    /\ observed' = WithReturn(observed, c, "register_module", "0", "none")

\* ocre_unregister_module: the whole body runs under registry_mutex
ocre_unregister_module(c, module_inst) ==
    /\ client[c].pc = "idle"
    /\ api_calls < MaxCalls
    /\ api_calls' = api_calls + 1
    /\ LET node == find_module_node(module_inst) IN
       IF ~is_valid_module_instance(module_inst)
       THEN /\ client' = Returns(c, client)
            /\ UNCHANGED <<module_registry, heap, exec_envs, worker, unregistered,
                           cleanup_log, expected_size>>
       ELSE IF node = NULL
       THEN /\ client' = Returns(c, client)
            /\ UNCHANGED <<module_registry, heap, exec_envs, worker, unregistered,
                           cleanup_log, expected_size>>
       ELSE /\ cleanup_log' =
                  ocre_cleanup_module_resources(
                      module_inst, RegistryAtCleanup(module_registry, node), exec_envs)
            /\ exec_envs' = exec_envs \ {heap[node].exec_env}
            /\ module_registry' = sys_slist_remove_prev_null(module_registry, node)
            /\ expected_size' = expected_size - 1
            /\ heap' = [heap EXCEPT ![node] = FreeNode]
            /\ worker' = MarkStale(worker, {node}, "unregister_module")
            /\ client' = Returns(c, MarkStale(client, {node}, "unregister_module"))
            /\ unregistered' = unregistered \cup {module_inst}
    /\ UNCHANGED <<common_initialized, event_system_running, event_sem, event_ring,
                   current_module_tls, posts, cleanup_handlers>>
    /\ UNCHANGED <<k_mutex, thread_code>>
    /\ observed' = WithReturn(observed, c, "unregister_module", "void",
                              IF ~is_valid_module_instance(module_inst)
                              THEN "invalid_module_instance"
                              ELSE IF find_module_node(module_inst) = NULL
                              THEN "not_found" ELSE "none")


\* The entry of ocre_get_module_context(module_inst), called directly
\* (op "get_module_context"), by ocre_get_resource_count(module_inst, type) or by
\* ocre_register_dispatcher(exec_env, type, function_name): the callers' own
\* tests first, then find_module_node under registry_mutex.  The exec_env
\* argument is given by the module instance it belongs to (NULL: no exec_env);
\* func is what wasm_runtime_lookup_function returns.
ContextLookup(c, op, module_inst, type, func) ==
    /\ client[c].pc = "idle"
    /\ api_calls < MaxCalls
    /\ api_calls' = api_calls + 1
    /\ LET node == find_module_node(module_inst)
           invalid ==
               CASE op = "get_module_context" -> ~is_valid_module_instance(module_inst)
                 [] op = "get_resource_count" ->
                       ~is_valid_module_instance(module_inst)
                       \/ ~is_valid_event_type(type)
                 [] op = "register_dispatcher" ->
                       ~is_valid_module_instance(module_inst)
                       \/ ~is_valid_event_type(type)
           invalid_ret ==
               CASE op = "get_module_context" -> "NULL"
                 [] op = "get_resource_count" -> "0"
                 [] op = "register_dispatcher" -> "-EINVAL"
           absent_ret ==
               CASE op = "get_module_context" -> "NULL"
                 [] op = "get_resource_count" -> "0"
                 [] op = "register_dispatcher" -> "-ENOENT"
       IN
       IF invalid
       THEN /\ client' = Returns(c, client)
       ELSE IF op = "register_dispatcher" /\ func = NULL
       THEN /\ client' = Returns(c, client)
       ELSE IF node = NULL
       THEN /\ client' = Returns(c, client)
       ELSE /\ client' = [client EXCEPT ![c].pc = "ctx_touch", ![c].op = op,
                                        ![c].h = module_inst, ![c].t = type,
                                        ![c].fn = func, ![c].node = node,
                                        ![c].stale = "no"]
    /\ UNCHANGED <<common_initialized, event_system_running, event_sem, event_ring,
                   module_registry, heap, exec_envs, current_module_tls, worker,
                   posts, unregistered>>
    /\ UNCHANGED <<cleanup_handlers, cleanup_log, expected_size>>
    /\ UNCHANGED <<k_mutex, thread_code>>
    /\ UNCHANGED observed

\* ocre_get_module_context after registry_mutex is released: last_activity is
\* written under the node's ctx_mutex and &node->ctx is returned
ContextTouch(c) ==
    /\ client[c].pc = "ctx_touch"
    /\ heap' = Store(client[c].node, "last_activity", "context")
    /\ IF client[c].op = "get_module_context"
       THEN /\ client' = Returns(c, client)
       ELSE /\ client' = [client EXCEPT ![c].pc = "ctx_use"]
    /\ UNCHANGED <<common_initialized, event_system_running, event_sem, event_ring,
                   module_registry, exec_envs, current_module_tls, worker,
                   posts, unregistered, api_calls>>
    /\ UNCHANGED <<cleanup_handlers, cleanup_log, expected_size>>
    /\ UNCHANGED <<k_mutex, thread_code>>
    /\ UNCHANGED observed

\* the caller uses the returned context: ocre_get_resource_count reads
\* ctx->resource_count[type]; ocre_register_dispatcher writes
\* ctx->dispatchers[type] under registry_mutex
ContextUse(c) ==
    /\ client[c].pc = "ctx_use"
    /\ LET me == client[c] IN
       IF me.op = "get_resource_count"
       THEN /\ \E count \in Load(me.stale, heap[me.node].resource_count[me.t], {0, 1}) :
                 /\ client' = Returns(c, client)
            /\ UNCHANGED heap
       ELSE /\ heap' = IF heap[me.node].live
                       THEN [heap EXCEPT ![me.node].dispatchers[me.t] = me.fn]
                       ELSE heap
            /\ client' = Returns(c, client)
    /\ UNCHANGED <<common_initialized, event_system_running, event_sem, event_ring,
                   module_registry, exec_envs, current_module_tls, worker,
                   posts, unregistered, api_calls>>
    /\ UNCHANGED <<cleanup_handlers, cleanup_log, expected_size>>
    /\ UNCHANGED <<k_mutex, thread_code>>
    /\ UNCHANGED observed

\* -------------------------------------------------------- resource counters
\* ocre_increment_resource_count: the whole body runs under registry_mutex
ocre_increment_resource_count(c, module_inst, type) ==
    /\ client[c].pc = "idle"
    /\ api_calls < MaxCalls
    /\ api_calls' = api_calls + 1
    /\ LET node == find_module_node(module_inst) IN
       heap' = IF ~is_valid_module_instance(module_inst)
                  \/ ~is_valid_event_type(type)
                  \/ node = NULL
               THEN heap
               ELSE IncrementCount(heap, node, type)
    /\ UNCHANGED <<common_initialized, event_system_running, event_sem, event_ring,
                   module_registry, exec_envs, current_module_tls, worker, client,
                   posts, unregistered, cleanup_handlers, cleanup_log,
                   expected_size>>
    /\ UNCHANGED <<k_mutex, thread_code>>
    /\ UNCHANGED observed

\* ocre_decrement_resource_count: the whole body runs under registry_mutex
ocre_decrement_resource_count(c, module_inst, type) ==
    /\ client[c].pc = "idle"
    /\ api_calls < MaxCalls
    /\ api_calls' = api_calls + 1
    /\ LET node == find_module_node(module_inst) IN
       heap' = IF ~is_valid_module_instance(module_inst)
                  \/ ~is_valid_event_type(type)
                  \/ node = NULL
               THEN heap
               ELSE DecrementCount(heap, node, type)
    /\ UNCHANGED <<common_initialized, event_system_running, event_sem, event_ring,
                   module_registry, exec_envs, current_module_tls, worker, client,
                   posts, unregistered, cleanup_handlers, cleanup_log,
                   expected_size>>
    /\ UNCHANGED <<k_mutex, thread_code>>
    /\ UNCHANGED observed

\* the value ocre_register_cleanup_handler(type, handler) returns
ocre_register_cleanup_handler_result(type, handler) ==
    IF ~is_valid_event_type(type) \/ handler = NULL THEN "-EINVAL" ELSE "0"

\* a registration that keeps the handler a type already has
HandlersKeepFirst(table, type, handler) ==
    IF ocre_register_cleanup_handler_result(type, handler) # "0" THEN table
    ELSE IF table[type] # NULL THEN table
    ELSE [table EXCEPT ![type] = handler]

\* cleanup_handlers after ocre_register_cleanup_handler(type, handler)
HandlersAfterRegister(table, type, handler) ==
    IF ocre_register_cleanup_handler_result(type, handler) # "0" THEN table
    ELSE [table EXCEPT ![type] = handler]

\* ocre_register_cleanup_handler: the table is written without a mutex
ocre_register_cleanup_handler(c, type, handler) ==
    /\ client[c].pc = "idle"
    /\ api_calls < MaxCalls
    /\ api_calls' = api_calls + 1
    /\ cleanup_handlers' = HandlersAfterRegister(cleanup_handlers, type, handler)
    /\ UNCHANGED <<common_initialized, event_system_running, event_sem, event_ring,
                   module_registry, heap, exec_envs, current_module_tls, worker,
                   client, posts, unregistered, cleanup_log, expected_size>>
    /\ UNCHANGED <<k_mutex, thread_code>>
    /\ LET code == ocre_register_cleanup_handler_result(type, handler) IN
       observed' = WithReturn(IF code = "0"
                              THEN WithHandler(observed, type, handler)
                              ELSE observed,
                              c, "register_cleanup_handler", code, "none")

\* the counters of module_inst after the handlers of log have run, each
\* making its ocre_decrement_resource_count(module_inst, type)
RECURSIVE AfterHandlers(_, _, _)
AfterHandlers(hp, n, log) ==
    IF log = <<>> \/ n = NULL THEN hp
    ELSE AfterHandlers(DecrementCount(hp, n, Head(log).type), n, Tail(log))

\* ocre_cleanup_module_resources(module_inst) called by a host thread
CleanupCall(c, module_inst) ==
    /\ client[c].pc = "idle"
    /\ api_calls < MaxCalls
    /\ api_calls' = api_calls + 1
    /\ cleanup_log' =
          ocre_cleanup_module_resources(module_inst, module_registry, exec_envs)
    /\ heap' = AfterHandlers(heap, find_module_node(module_inst), cleanup_log')
    /\ observed' = WithReturn(observed, c, "cleanup_module_resources", "void",
                              IF is_valid_module_instance(module_inst)
                              THEN "none" ELSE "invalid_module_instance")
    /\ UNCHANGED <<common_initialized, event_system_running, event_sem, event_ring,
                   module_registry, exec_envs, current_module_tls, worker, client,
                   posts, unregistered, cleanup_handlers, expected_size>>
    /\ UNCHANGED <<k_mutex, thread_code>>

\* ---------------------------------------------------------------- posting
\* the producer-side events (ocre_event_t) the host threads post; NullEvent is
\* a null event pointer
NullEvent == [ptr |-> NULL]

TimerEvent(owner) ==
    [type |-> OCRE_RESOURCE_TYPE_TIMER, timer_id |-> 7, owner |-> owner]

GpioEvent(owner) ==
    [type |-> OCRE_RESOURCE_TYPE_GPIO, pin_id |-> 3, state |-> 1, owner |-> owner]

SensorEvent(owner) ==
    [type |-> OCRE_RESOURCE_TYPE_SENSOR, sensor_id |-> 1, channel |-> 2,
     value |-> 42, owner |-> owner]

InvalidTypeEvent == [type |-> OCRE_RESOURCE_TYPE_COUNT]

\* the events the host threads post name one owner
PostOwners == {1}

PostInputs ==
    {NullEvent, InvalidTypeEvent}
    \cup {TimerEvent(o) : o \in PostOwners}
    \cup {GpioEvent(o) : o \in PostOwners}
    \cup {SensorEvent(o) : o \in PostOwners}

\* the flat wasm_event_t ocre_post_event builds.  posted_for and bound_at_post
\* are not fields of the record: they remember the owner the producer named
\* and whether that owner was registered with a dispatcher bound for the type
\* when the event was posted.
ToWasmEvent(event) ==
    LET flat ==
          IF event.type = OCRE_RESOURCE_TYPE_TIMER
          THEN [type |-> event.type, id |-> event.timer_id, port |-> 0, state |-> 0]
          ELSE IF event.type = OCRE_RESOURCE_TYPE_GPIO
          THEN [type |-> event.type, id |-> event.pin_id, port |-> 0,
                state |-> event.state]
          ELSE [type |-> event.type, id |-> event.sensor_id, port |-> event.channel,
                state |-> event.value]
        node == find_module_node(event.owner)
    IN  [type |-> flat.type, id |-> flat.id, port |-> flat.port, state |-> flat.state,
         posted_for |-> event.owner,
         bound_at_post |-> node # NULL /\ heap[node].dispatchers[event.type] # NULL]

ring_buf_space_get == EVENT_BUFFER_SIZE - Len(event_ring) * SIZEOF_WASM_EVENT

\* the full test with <= in place of <
BufferFullOffByOne(space) == space <= SIZEOF_WASM_EVENT

\* ring_buf_space_get(&event_ring) < sizeof(wasm_event_t)
BufferFull(space) == space < SIZEOF_WASM_EVENT

\* ocre_post_event without the test of common_initialized
ocre_post_event_unguarded(event) ==
    IF event = NullEvent THEN "-EINVAL"
    ELSE IF ~is_valid_event_type(event.type) THEN "-EINVAL"
    ELSE IF BufferFull(ring_buf_space_get) THEN "-ENOMEM"
    ELSE "0"

\* the value ocre_post_event(event) returns when called in the current state
\* (ring_buf_put under event_mutex, after the space test, writes the whole
\* record, so -EIO is not returned)
ocre_post_event_result(event) ==
    IF event = NullEvent THEN "-EINVAL"
    ELSE IF ~is_valid_event_type(event.type) THEN "-EINVAL"
    ELSE IF ~common_initialized THEN "-ENODEV"
    ELSE IF BufferFull(ring_buf_space_get) THEN "-ENOMEM"
    ELSE "0"

\* ocre_post_event up to the release of event_mutex
PostCall(c, event) ==
    /\ client[c].pc = "idle"
    /\ api_calls' = api_calls + 1
    /\ IF ocre_post_event_result(event) # "0"
       THEN /\ client' = Returns(c, client)
            /\ observed' = WithReturn(observed, c, "post_event",
                                      ocre_post_event_result(event), "none")
            /\ UNCHANGED <<event_ring, posts>>
       ELSE /\ event_ring' = Append(event_ring, ToWasmEvent(event))
            /\ observed' = WithPosted(observed, ToWasmEvent(event))
            /\ posts' = posts + 1
            /\ client' = [client EXCEPT ![c].pc = "post_give",
                                        ![c].op = "post_event"]
    /\ UNCHANGED <<common_initialized, event_system_running, event_sem,
                   module_registry, heap, exec_envs, current_module_tls, worker,
                   unregistered>>
    /\ UNCHANGED <<cleanup_handlers, cleanup_log, expected_size>>
    /\ UNCHANGED <<k_mutex, thread_code>>

\* a call of ocre_post_event by a host thread
PostBegin(c, event) ==
    /\ api_calls < MaxCalls
    /\ posts < MaxPosts
    /\ PostCall(c, event)

\* a return of 0 that leaves the semaphore as it is
k_sem_give_skipped(count) == count

\* the count of event_sem after k_sem_give; its limit is UINT_MAX
k_sem_give(count) == count + 1

\* k_sem_give(&event_sem), return 0
PostGive(c) ==
    /\ client[c].pc = "post_give"
    /\ event_sem' = k_sem_give(event_sem)
    /\ client' = Returns(c, client)
    /\ UNCHANGED <<common_initialized, event_system_running, event_ring,
                   module_registry, heap, exec_envs, current_module_tls, worker,
                   posts, unregistered, api_calls>>
    /\ UNCHANGED <<cleanup_handlers, cleanup_log, expected_size>>
    /\ UNCHANGED <<k_mutex, thread_code>>
    /\ observed' = WithReturn(observed, c, "post_event", "0", "none")

\* the four guest offsets passed to ocre_get_event
Offsets == {"type_offset", "id_offset", "port_offset", "state_offset"}

\* the value ocre_get_event returns when called in the current state;
\* module_inst is what wasm_runtime_get_module_inst(exec_env) yields (NULL
\* also stands for a null exec_env) and bad holds the offsets that
\* wasm_runtime_addr_app_to_native turns into NULL
ocre_get_event_result(module_inst, bad) ==
    IF ~is_valid_module_instance(module_inst) THEN "-EINVAL"
    ELSE IF bad # {} THEN "-EINVAL"
    ELSE IF Len(event_ring) * SIZEOF_WASM_EVENT < SIZEOF_WASM_EVENT THEN "-ENOENT"
    ELSE "0"

\* a ring_buf_get made before the arguments are validated
RingGetBeforeTests(ring, code) ==
    IF ring # <<>> THEN Tail(ring) ELSE ring

\* event_ring after ocre_get_event: ring_buf_get of sizeof(event) bytes is
\* reached only with valid arguments and takes the oldest record
RingAfterGetEvent(ring, code) ==
    IF code = "0" THEN Tail(ring) ELSE ring

\* ocre_get_event(exec_env, type_offset, id_offset, port_offset, state_offset)
ocre_get_event(c, module_inst, bad) ==
    /\ client[c].pc = "idle"
    /\ api_calls' = api_calls + 1
    /\ LET code == ocre_get_event_result(module_inst, bad) IN
       /\ event_ring' = RingAfterGetEvent(event_ring, code)
       /\ observed' =
             WithReturn(WithRemoved(observed,
                                    SubSeq(event_ring, 1,
                                           Len(event_ring) - Len(event_ring'))),
                        c, "get_event", code, "none")
    /\ UNCHANGED <<common_initialized, event_system_running, event_sem,
                   module_registry, heap, exec_envs, current_module_tls, worker,
                   client, posts, unregistered>>
    /\ UNCHANGED <<cleanup_handlers, cleanup_log, expected_size>>
    /\ UNCHANGED <<k_mutex, thread_code>>

\* ------------------------------------------------------------ specification
ContextOps == {"get_module_context", "get_resource_count", "register_dispatcher"}

\* the resource types the host threads pass: one valid, one out of range
ContextTypes == {OCRE_RESOURCE_TYPE_TIMER, OCRE_RESOURCE_TYPE_COUNT}

Next ==
    \/ \E w \in Workers : event_processor_thread(w)
    \/ \E c \in Clients : ocre_common_init(c)
    \/ \E c \in Clients : ShutdownBegin(c)
    \/ \E c \in Clients : ShutdownGive(c)
    \/ \E c \in Clients : ShutdownClean(c)
    \/ \E c \in Clients, h \in Handles \cup {NULL} : RegisterBegin(c, h)
    \/ \E c \in Clients : RegisterAppend(c)
    \/ \E c \in Clients, h \in Handles \cup {NULL} : ocre_unregister_module(c, h)
    \/ \E c \in Clients, op \in ContextOps, h \in Handles \cup {NULL},
          t \in ContextTypes, f \in Funcs \cup {NULL} :
          ContextLookup(c, op, h, t, f)
    \/ \E c \in Clients : ContextTouch(c)
    \/ \E c \in Clients : ContextUse(c)
    \/ \E c \in Clients, e \in PostInputs : PostBegin(c, e)
    \/ \E c \in Clients : PostGive(c)

Spec == Init /\ [][Next]_vars


\* -------------------------------------------- process_single_event by itself
\* The worker loop of the present source never passes a node to
\* process_single_event (see C6), so the function is also taken by itself: the
\* core is up, two modules are registered, and each event processor thread
\* either is at its entry or has just been handed an event of a drained batch
\* and a registered node.  The inputs range over every dispatcher vector and
\* both kinds of exec_env for the first module, and over every event type.
DrainedEvents ==
    {[type |-> ty, id |-> 7, port |-> 0, state |-> 1, posted_for |-> 1,
      bound_at_post |-> FALSE] : ty \in 0..OCRE_RESOURCE_TYPE_COUNT}

AllBound ==
    [NewNode(2, 2) EXCEPT !.dispatchers = [t \in ResourceTypes |-> 1]]

InitPSE ==
    /\ common_initialized = TRUE
    /\ event_system_running = TRUE
    /\ module_registry = <<1, 2>>
    /\ \E d \in [ResourceTypes -> Funcs \cup {NULL}], env \in {NULL, 1} :
          /\ heap = [n \in NodeAddrs |->
                       IF n = 1 THEN [NewNode(1, 1) EXCEPT !.dispatchers = d,
                                                          !.exec_env = env]
                       ELSE IF n = 2 THEN AllBound
                       ELSE FreeNode]
          /\ exec_envs = {2} \cup ({env} \ {NULL})
    /\ \E queued \in {<<>>} \cup {<<e>> : e \in DrainedEvents} :
          /\ event_ring = queued
          /\ event_sem = Len(queued)
    /\ current_module_tls = [w \in Workers |-> NULL]
    /\ worker \in [Workers ->
          {IdleWorker("start")}
          \cup {[IdleWorker("pse_entry") EXCEPT !.batch = <<e>>, !.node = n]
                  : e \in DrainedEvents, n \in {1, 2}}]
    /\ client = [c \in Clients |-> IdleClient]
    /\ posts = 0
    /\ unregistered = {}
    /\ api_calls = 0
    /\ cleanup_handlers = [t \in ResourceTypes |-> NULL]
    /\ cleanup_log = <<>>
    /\ k_mutex = [m \in Mutexes |-> FreeMutex]
    /\ thread_code = [t \in Threads |-> Returned]
    /\ observed = NotObserved
    /\ expected_size = 2

NextPSE == \E w \in Workers : event_processor_thread(w)

SpecPSE == InitPSE /\ [][NextPSE]_vars


\* ------------------------------------------------------ shutdown and workers
\* The core is up with two modules registered, the event processor threads
\* are at any point of their loop (entry, blocked in k_sem_take, about to
\* drain, or in process_single_event with an event and a node), the queue is
\* empty or holds one event and the semaphore holds any count up to MaxPermits;
\* host threads call ocre_common_shutdown, MaxStops times at most.  Each thread that can take a step
\* eventually takes one (the scheduler is fair and guest calls return).
MaxPermits == 2
MaxStops == 2

\* the one kind of event queued or in a thread's hands when shutdown is called
StopEvents == {e \in DrainedEvents : e.type = OCRE_RESOURCE_TYPE_TIMER}

InitStop ==
    /\ common_initialized = TRUE
    /\ event_system_running = TRUE
    /\ module_registry = <<1, 2>>
    /\ heap = [n \in NodeAddrs |->
                 IF n = 1 THEN NewNode(1, 1)
                 ELSE IF n = 2 THEN AllBound
                 ELSE FreeNode]
    /\ exec_envs = {1, 2}
    /\ event_ring \in {<<>>} \cup {<<e>> : e \in StopEvents}
    /\ event_sem \in 0..MaxPermits
    /\ current_module_tls = [w \in Workers |-> NULL]
    /\ worker \in [Workers ->
          {IdleWorker("start"), IdleWorker("sem"), IdleWorker("drain")}
          \cup {[IdleWorker("pse_entry") EXCEPT !.batch = <<e>>, !.node = 2]
                  : e \in StopEvents}]
    /\ client = [c \in Clients |-> IdleClient]
    /\ posts = 0
    /\ unregistered = {}
    /\ api_calls = 0
    /\ cleanup_handlers = [t \in ResourceTypes |-> NULL]
    /\ cleanup_log = <<>>
    /\ k_mutex = [m \in Mutexes |-> FreeMutex]
    /\ thread_code = [t \in Threads |-> Returned]
    /\ observed = NotObserved
    /\ expected_size = 2

NextStop ==
    \/ \E w \in Workers : event_processor_thread(w)
    \/ \E c \in Clients : api_calls < MaxStops /\ ShutdownBegin(c)
    \/ \E c \in Clients : ShutdownGive(c)
    \/ \E c \in Clients : ShutdownClean(c)

SpecStop ==
    /\ InitStop
    /\ [][NextStop]_vars
    /\ \A w \in Workers : WF_vars(event_processor_thread(w))
    /\ \A c \in Clients : WF_vars(ShutdownGive(c))

\* ------------------------------------------------- the queue filled by posts
\* The core is up, its threads are created and have not run yet, and the host
\* threads post valid events until well past the capacity of event_ring;
\* api_calls is the number of posts made.
CoreUp ==
    /\ common_initialized = TRUE
    /\ event_system_running = TRUE
    /\ event_sem = 0
    /\ event_ring = <<>>
    /\ module_registry = <<>>
    /\ heap = [n \in NodeAddrs |-> FreeNode]
    /\ exec_envs = {}
    /\ current_module_tls = [w \in Workers |-> NULL]
    /\ worker = [w \in Workers |-> IdleWorker("start")]
    /\ client = [c \in Clients |-> IdleClient]
    /\ posts = 0
    /\ unregistered = {}
    /\ api_calls = 0
    /\ cleanup_handlers = [t \in ResourceTypes |-> NULL]
    /\ cleanup_log = <<>>
    /\ k_mutex = [m \in Mutexes |-> FreeMutex]
    /\ thread_code = [t \in Threads |-> Returned]
    /\ expected_size = 0

InitPost == CoreUp /\ observed = NotObserved

PostFill(c) ==
    /\ api_calls < MaxFill
    /\ PostCall(c, TimerEvent(1))

NextPost ==
    \/ \E c \in Clients : PostFill(c)
    \/ \E c \in Clients : PostGive(c)

SpecPost == InitPost /\ [][NextPost]_vars


\* ------------------------------------- module registry and resource counters
\* The core is up, its threads are created and have not run yet, and the host
\* threads register and unregister modules, count resources, and register
\* cleanup handlers and dispatchers.
CounterTypes ==
    {OCRE_RESOURCE_TYPE_TIMER, OCRE_RESOURCE_TYPE_GPIO, OCRE_RESOURCE_TYPE_COUNT}

NextMod ==
    \/ \E c \in Clients, h \in Handles \cup {NULL} : RegisterBegin(c, h)
    \/ \E c \in Clients : RegisterAppend(c)
    \/ \E c \in Clients, h \in Handles \cup {NULL} : ocre_unregister_module(c, h)
    \/ \E c \in Clients, h \in Handles \cup {NULL}, t \in CounterTypes :
          ocre_increment_resource_count(c, h, t)
    \/ \E c \in Clients, h \in Handles \cup {NULL}, t \in CounterTypes :
          ocre_decrement_resource_count(c, h, t)
    \/ \E c \in Clients, t \in CounterTypes, f \in Handlers \cup {NULL} :
          ocre_register_cleanup_handler(c, t, f)
    \/ \E c \in Clients, op \in ContextOps, h \in Handles \cup {NULL},
          t \in ContextTypes, f \in Funcs \cup {NULL} :
          ContextLookup(c, op, h, t, f)
    \/ \E c \in Clients : ContextTouch(c)
    \/ \E c \in Clients : ContextUse(c)

InitMod == InitPost

SpecMod == InitMod /\ [][NextMod]_vars

\* ------------------------------------------------------- the API's results
\* The whole system as in Spec, from before ocre_common_init, with what the
\* calls return recorded and MaxObserved calls at most; the host threads
\* also register cleanup handlers and poll the queue with ocre_get_event.
MaxObserved == 4

NextApi ==
    \/ \E w \in Workers : event_processor_thread(w)
    \/ \E c \in Clients : api_calls < MaxObserved /\ ocre_common_init(c)
    \/ \E c \in Clients : api_calls < MaxObserved /\ ShutdownBegin(c)
    \/ \E c \in Clients : ShutdownGive(c)
    \/ \E c \in Clients : ShutdownClean(c)
    \/ \E c \in Clients, h \in Handles \cup {NULL} :
          api_calls < MaxObserved /\ RegisterBegin(c, h)
    \/ \E c \in Clients : RegisterAppend(c)
    \/ \E c \in Clients, h \in Handles \cup {NULL} :
          api_calls < MaxObserved /\ ocre_unregister_module(c, h)
    \/ \E c \in Clients, e \in PostInputs :
          api_calls < MaxObserved /\ PostBegin(c, e)
    \/ \E c \in Clients : PostGive(c)
    \/ \E c \in Clients, t \in CounterTypes, f \in Handlers \cup {NULL} :
          api_calls < MaxObserved /\ ocre_register_cleanup_handler(c, t, f)
    \/ \E c \in Clients, h \in Handles \cup {NULL}, bad \in SUBSET Offsets :
          api_calls < MaxObserved /\ ocre_get_event(c, h, bad)

InitApi == CoreDown /\ observed = Observing

SpecApi == InitApi /\ [][NextApi]_vars

\* --------------------------------------------- the queue and its semaphore
\* The core is up with no module registered and its threads are created and
\* have not run yet; the queue is empty, or Prefilled posts were made before
\* any thread was scheduled.  The host threads post MaxFresh further timer
\* events, the n-th post carrying timer_id n, and poll the queue with
\* ocre_get_event MaxPolls times at most, while the event processor threads
\* run.  Posted and removed records are recorded.
Prefilled == 15
MaxFresh == 3
MaxPolls == 1

\* the record of the n-th post
NumberedRecord(n) ==
    [type |-> OCRE_RESOURCE_TYPE_TIMER, id |-> n, port |-> 0, state |-> 0,
     posted_for |-> 1, bound_at_post |-> FALSE]

PostNumbered(c) ==
    /\ posts # MaxFresh
    /\ posts < Prefilled + MaxFresh
    /\ PostCall(c, [TimerEvent(1) EXCEPT !.timer_id = posts + 1])

Poll(c) ==
    /\ api_calls - posts < MaxPolls
    /\ ocre_get_event(c, 1, {})

InitQueue ==
    /\ common_initialized = TRUE
    /\ event_system_running = TRUE
    /\ \E queued \in {0, Prefilled} :
          /\ event_ring = [n \in 1..queued |-> NumberedRecord(n)]
          /\ event_sem = queued
          /\ posts = queued
          /\ api_calls = queued
          /\ observed = [Observing EXCEPT !.posted = event_ring]
    /\ module_registry = <<>>
    /\ heap = [n \in NodeAddrs |-> FreeNode]
    /\ exec_envs = {}
    /\ current_module_tls = [w \in Workers |-> NULL]
    /\ worker = [w \in Workers |-> IdleWorker("start")]
    /\ client = [c \in Clients |-> IdleClient]
    /\ unregistered = {}
    /\ cleanup_handlers = [t \in ResourceTypes |-> NULL]
    /\ cleanup_log = <<>>
    /\ k_mutex = [m \in Mutexes |-> FreeMutex]
    /\ thread_code = [t \in Threads |-> Returned]
    /\ expected_size = 0

NextQueue ==
    \/ \E w \in Workers : event_processor_thread(w)
    \/ \E c \in Clients : PostNumbered(c)
    \/ \E c \in Clients : PostGive(c)
    \/ \E c \in Clients : Poll(c)

SpecQueue == InitQueue /\ [][NextQueue]_vars


\* ------------------------------------------------------ the cleanup handlers
\* The core is up; the host threads register the cleanup handlers f and g for
\* the timer and gpio types (and make the invalid calls), register and
\* unregister a module and call ocre_cleanup_module_resources.  The
\* successful handler registrations are recorded.
CleanupHandlers == {1, 2}

NextCleanup ==
    \/ \E c \in Clients, t \in CounterTypes, f \in CleanupHandlers \cup {NULL} :
          ocre_register_cleanup_handler(c, t, f)
    \/ \E c \in Clients : RegisterBegin(c, 1)
    \/ \E c \in Clients : RegisterAppend(c)
    \/ \E c \in Clients, h \in {1, NULL} : ocre_unregister_module(c, h)
    \/ \E c \in Clients, h \in {1, NULL} : CleanupCall(c, h)

InitCleanup == CoreUp /\ observed = Observing

SpecCleanup == InitCleanup /\ [][NextCleanup]_vars


\* ---------------------------------------------------------- the core mutexes
\* Each function is taken as the sequence of its mutex operations, guest
\* calls, sleeps and accesses to a node's dispatchers and exec_env, in source
\* order, for each way through its branches; n is the node the function's
\* find_module_node returns (NULL: none).  k_mutex is recursive: its owner
\* may lock it again.  The event processor threads run the body of their
\* loop up to the target lookup, and process_single_event with any node (a
\* thread holds no mutex between the two, so they are taken one at a time);
\* the host threads call the public functions.  Nodes are not freed here, so
\* each ctx_mutex stays a mutex.
Lock(m) == [op |-> "k_mutex_lock", m |-> m, node |-> NULL]
Unlock(m) == [op |-> "k_mutex_unlock", m |-> m, node |-> NULL]
GuestCall(n) == [op |-> "wasm_runtime_call_wasm", m |-> NoMutex, node |-> n]
Sleep == [op |-> "k_sleep", m |-> NoMutex, node |-> NULL]
ReadDispatchers(n) == [op |-> "read dispatchers", m |-> NoMutex, node |-> n]
ReadExecEnv(n) == [op |-> "read exec_env", m |-> NoMutex, node |-> n]
WriteDispatchers(n) == [op |-> "write dispatchers", m |-> NoMutex, node |-> n]

RECURSIVE Repeat(_, _)
Repeat(k, seq) == IF k = 0 THEN <<>> ELSE seq \o Repeat(k - 1, seq)

\* the guest call made with the node's ctx_mutex held
process_single_event_locked_call(n, failures, bound) ==
    <<ReadDispatchers(n)>>
    \o (IF ~bound THEN <<>>
        ELSE <<ReadExecEnv(n), Lock(ctx_mutex(n))>>
             \o Repeat(failures, <<GuestCall(n), Sleep>>)
             \o (IF failures < MAX_DISPATCH_RETRIES
                 THEN <<GuestCall(n), Unlock(ctx_mutex(n))>>
                 ELSE <<Unlock(ctx_mutex(n))>>))

\* process_single_event(event, node): the dispatcher is read (bound or not),
\* exec_env is read, the guest call fails `failures` times, each failure
\* followed by the sleep, and succeeds next unless the retries are used up;
\* last_activity is written under ctx_mutex after a success
process_single_event_path(n, failures, bound) ==
    <<ReadDispatchers(n)>>
    \o (IF ~bound THEN <<>>
        ELSE <<ReadExecEnv(n)>>
             \o Repeat(failures, <<GuestCall(n), Sleep>>)
             \o (IF failures < MAX_DISPATCH_RETRIES
                 THEN <<GuestCall(n), Lock(ctx_mutex(n)), Unlock(ctx_mutex(n))>>
                 ELSE <<>>))

\* one round of the loop of event_processor_thread with one event drained:
\* the batch is read under event_mutex, the target looked up under
\* registry_mutex
event_processor_thread_path ==
    <<Lock(event_mutex), Unlock(event_mutex),
      Lock(registry_mutex), Unlock(registry_mutex)>>

\* ocre_register_module: the append
ocre_register_module_path == <<Lock(registry_mutex), Unlock(registry_mutex)>>

\* ocre_get_module_context
ocre_get_module_context_path(n) ==
    <<Lock(registry_mutex), Unlock(registry_mutex)>>
    \o (IF n = NULL THEN <<>> ELSE <<Lock(ctx_mutex(n)), Unlock(ctx_mutex(n))>>)

\* ocre_register_dispatcher: ocre_get_module_context, then the write
ocre_register_dispatcher_path(n) ==
    ocre_get_module_context_path(n)
    \o (IF n = NULL THEN <<>>
        ELSE <<Lock(registry_mutex), WriteDispatchers(n), Unlock(registry_mutex)>>)

\* an increment that takes the node's ctx_mutex before registry_mutex
ocre_increment_ctx_first(n) ==
    IF n = NULL THEN <<Lock(registry_mutex), Unlock(registry_mutex)>>
    ELSE <<Lock(ctx_mutex(n)), Lock(registry_mutex),
           Unlock(registry_mutex), Unlock(ctx_mutex(n))>>

\* ocre_increment_resource_count
ocre_increment_resource_count_path(n) ==
    <<Lock(registry_mutex)>>
    \o (IF n = NULL THEN <<>> ELSE <<Lock(ctx_mutex(n)), Unlock(ctx_mutex(n))>>)
    \o <<Unlock(registry_mutex)>>

\* ocre_decrement_resource_count
ocre_decrement_resource_count_path(n) ==
    <<Lock(registry_mutex)>>
    \o (IF n = NULL THEN <<>> ELSE <<Lock(ctx_mutex(n)), Unlock(ctx_mutex(n))>>)
    \o <<Unlock(registry_mutex)>>

\* ocre_cleanup_module_resources for node n with `handlers` handlers
\* registered, each calling ocre_decrement_resource_count on the module
ocre_cleanup_module_resources_path(n, handlers) ==
    Repeat(handlers, ocre_decrement_resource_count_path(n))

\* ocre_unregister_module: the cleanup runs with registry_mutex held
ocre_unregister_module_path(n, handlers) ==
    <<Lock(registry_mutex)>>
    \o (IF n = NULL THEN <<>> ELSE ocre_cleanup_module_resources_path(n, handlers))
    \o <<Unlock(registry_mutex)>>

\* ocre_common_shutdown after its sleeps, with node n in the registry
ocre_common_shutdown_path(n, handlers) ==
    <<Lock(registry_mutex)>>
    \o (IF n = NULL THEN <<>> ELSE ocre_cleanup_module_resources_path(n, handlers))
    \o <<Unlock(registry_mutex)>>

\* ocre_post_event and ocre_get_event: the ring buffer access
ocre_post_event_path == <<Lock(event_mutex), Unlock(event_mutex)>>

ocre_get_event_path == <<Lock(event_mutex), Unlock(event_mutex)>>

\* the numbers of failed guest calls and of cleanup handlers tried
MaxFailures == 1
MaxHandlers == 1

WorkerPaths ==
    {event_processor_thread_path}
    \cup {process_single_event_path(n, f, b) :
             n \in NodeAddrs, f \in 0..MaxFailures, b \in BOOLEAN}

HostPaths ==
    {ocre_register_module_path, ocre_post_event_path, ocre_get_event_path}
    \cup {ocre_get_module_context_path(n) : n \in NodeAddrs \cup {NULL}}
    \cup {ocre_register_dispatcher_path(n) : n \in NodeAddrs \cup {NULL}}
    \cup {ocre_increment_resource_count_path(n) : n \in NodeAddrs \cup {NULL}}
    \cup {ocre_decrement_resource_count_path(n) : n \in NodeAddrs \cup {NULL}}
    \cup {ocre_unregister_module_path(n, k) :
             n \in NodeAddrs \cup {NULL}, k \in 0..MaxHandlers}
    \cup {ocre_common_shutdown_path(n, k) :
             n \in NodeAddrs \cup {NULL}, k \in 0..MaxHandlers}

\* everything but the mutexes and the threads' positions in these paths
program_state ==
    <<common_initialized, event_system_running, event_sem, event_ring,
      module_registry, heap, exec_envs, current_module_tls, worker, client,
      posts, unregistered, api_calls, cleanup_handlers, cleanup_log,
      expected_size, observed>>

\* the operation thread t is at (requesting a mutex, in a guest call, ...)
At(t) ==
    IF thread_code[t] = Returned
    THEN [op |-> "none", m |-> NoMutex, node |-> NULL]
    ELSE Head(thread_code[t])

\* the thread is through with the operation it is at
Advance(t) == [thread_code EXCEPT ![t] = Tail(@)]

\* an event processor thread starts a round of its loop
WorkerRound(w) ==
    /\ thread_code[WorkerThread(w)] = Returned
    /\ \E path \in WorkerPaths :
          thread_code' = [thread_code EXCEPT ![WorkerThread(w)] = path]
    /\ UNCHANGED k_mutex
    /\ UNCHANGED program_state

\* a host thread enters a public function
HostCall(c) ==
    /\ thread_code[HostThread(c)] = Returned
    /\ \E path \in HostPaths :
          thread_code' = [thread_code EXCEPT ![HostThread(c)] = path]
    /\ UNCHANGED k_mutex
    /\ UNCHANGED program_state

\* k_mutex_lock(m, K_FOREVER) returns: m is free or already owned by t
k_mutex_lock(t) ==
    /\ At(t).op = "k_mutex_lock"
    /\ k_mutex[At(t).m].owner \in {NULL, t}
    /\ k_mutex' = [k_mutex EXCEPT ![At(t).m] =
                      [owner |-> t, lock_count |-> @.lock_count + 1]]
    /\ thread_code' = Advance(t)
    /\ UNCHANGED program_state

\* k_mutex_unlock(m) by its owner
k_mutex_unlock(t) ==
    /\ At(t).op = "k_mutex_unlock"
    /\ k_mutex[At(t).m].owner = t
    /\ k_mutex' = [k_mutex EXCEPT ![At(t).m] =
                      IF @.lock_count = 1 THEN FreeMutex
                      ELSE [@ EXCEPT !.lock_count = @ - 1]]
    /\ thread_code' = Advance(t)
    /\ UNCHANGED program_state

\* a guest call or a sleep returns, an access is done
Proceed(t) ==
    /\ At(t).op \notin {"none", "k_mutex_lock", "k_mutex_unlock"}
    /\ thread_code' = Advance(t)
    /\ UNCHANGED k_mutex
    /\ UNCHANGED program_state

InitLocks == InitPost

NextLocks ==
    \/ \E w \in Workers : WorkerRound(w)
    \/ \E c \in Clients : HostCall(c)
    \/ \E t \in Threads : k_mutex_lock(t)
    \/ \E t \in Threads : k_mutex_unlock(t)
    \/ \E t \in Threads : Proceed(t)

SpecLocks == InitLocks /\ [][NextLocks]_vars

\* ------------------------------------------------------------------ claims
InDispatch == {"pse_entry", "pse_call", "in_guest", "sleep", "pse_stamp"}

\* C1: once ocre_unregister_module(h) has freed h's node and returned, no
\* worker starts a guest call (first attempt or retry) on that node's
\* execution environment.
Thm_C1 ==
    \A w \in Workers :
        worker[w].pc = "in_guest" => worker[w].call_after # "unregister_module"

\* a worker is about to select the target of a drained event whose producer
\* named a module that ocre_unregister_module has removed
Witness_C1 ==
    \E w \in Workers :
        /\ worker[w].pc = "for_each"
        /\ worker[w].i < Len(worker[w].batch)
        /\ worker[w].batch[worker[w].i + 1].posted_for \in unregistered

\* C2: no thread reads or writes a module context after ocre_unregister_module
\* or ocre_common_shutdown has freed it: a thread about to use the node it
\* looked up never holds a dangling pointer.
CE_C2 ==
    /\ \A c \in Clients :
          client[c].pc \in {"ctx_touch", "ctx_use"} => client[c].stale = "no"
    /\ \A w \in Workers :
          worker[w].pc \in InDispatch => worker[w].stale = "no"

\* C3: each module handle appears in at most one registry entry.
CE_C3 ==
    \A a, b \in 1..Len(module_registry) :
        heap[module_registry[a]].inst = heap[module_registry[b]].inst => a = b

\* no ocre_register_module(h) or ocre_common_shutdown call is in progress
\* (ocre_unregister_module is one step)
Quiescent(h) ==
    \A c \in Clients :
        /\ ~(client[c].op = "register_module" /\ client[c].h = h)
        /\ client[c].op # "shutdown"

AliveEnvFor(h) ==
    \E n \in NodeAddrs :
        heap[n].live /\ heap[n].inst = h /\ heap[n].exec_env \in exec_envs

\* C4: while no register, unregister or shutdown call is in progress for h, an
\* execution environment created for h is alive iff h has a registry entry,
\* and no registry entry refers to a destroyed environment.
CE_C4 ==
    \A h \in Handles :
        Quiescent(h) =>
            /\ AliveEnvFor(h) <=> find_module_node(h) # NULL
            /\ \A n \in Range(module_registry) : heap[n].exec_env \in exec_envs

\* the owner of event e is registered with a dispatcher bound for e's type
Deliverable(e) ==
    /\ find_module_node(e.posted_for) # NULL
    /\ heap[find_module_node(e.posted_for)].dispatchers[e.type] # NULL

\* C5: an event posted for a registered module with a dispatcher bound for its
\* type, once a worker is through with it (the core still up, the module
\* still registered and bound, no guest call having failed), has had the
\* dispatcher invoked exactly once and returned success.
CE_C5 ==
    \A w \in Workers :
        (/\ worker[w].pc = "for_each"
         /\ worker[w].i > 0
         /\ worker[w].batch[worker[w].i].bound_at_post
         /\ Deliverable(worker[w].batch[worker[w].i])
         /\ common_initialized
         /\ event_system_running
         /\ worker[w].retry_count = 0)
        => worker[w].calls = 1 /\ worker[w].outcome = "ok"

\* C6: a worker's current_module_tls is null when it selects the target of a
\* drained event, so every drained event is dropped for want of a target and
\* no worker enters process_single_event or calls a guest function.
Thm_C6 ==
    \A w \in Workers :
        /\ worker[w].pc = "for_each" => current_module_tls[tls_slot(w)] = NULL
        /\ worker[w].pc \notin InDispatch
        /\ worker[w].calls = 0
        /\ (worker[w].pc = "for_each" /\ worker[w].i > 0)
              => worker[w].outcome = "no_target"

\* a worker has dropped an event that was posted for a module registered,
\* then and now, with a dispatcher bound for the event's type
Witness_C6 ==
    \E w \in Workers :
        /\ worker[w].pc = "for_each"
        /\ worker[w].i > 0
        /\ worker[w].outcome = "no_target"
        /\ worker[w].batch[worker[w].i].bound_at_post
        /\ Deliverable(worker[w].batch[worker[w].i])

\* C7: two workers are never inside a guest call on the same module's
\* execution environment at the same time.
Thm_C7 ==
    \A w1, w2 \in Workers :
        (w1 # w2 /\ worker[w1].pc = "in_guest" /\ worker[w2].pc = "in_guest")
        => worker[w1].node # worker[w2].node

\* both workers hold a drained event, not yet handled, posted for the same
\* registered module
Witness_C7 ==
    \E w1, w2 \in Workers :
        /\ w1 # w2
        /\ \A w \in {w1, w2} :
              /\ worker[w].pc = "for_each"
              /\ worker[w].i < Len(worker[w].batch)
              /\ find_module_node(worker[w].batch[worker[w].i + 1].posted_for) # NULL
        /\ worker[w1].batch[worker[w1].i + 1].posted_for
              = worker[w2].batch[worker[w2].i + 1].posted_for

\* C8: a dispatch calls the guest function at most MAX_DISPATCH_RETRIES times
\* and at least once; a success is the last call (exactly one call when the
\* first attempt succeeds); after the third failure the event is dropped; no
\* call follows a success; and no step of a worker puts a record in the queue.
Thm_C8 ==
    /\ [](\A w \in Workers :
            /\ worker[w].calls <= MAX_DISPATCH_RETRIES
            /\ worker[w].pc \in {"in_guest", "sleep", "pse_stamp"}
                  => worker[w].calls >= 1
            /\ (worker[w].pc = "for_each" /\ worker[w].outcome = "ok")
                  => worker[w].calls = worker[w].retry_count + 1
            /\ (worker[w].pc = "for_each" /\ worker[w].outcome = "EFAULT")
                  => /\ worker[w].calls = MAX_DISPATCH_RETRIES
                     /\ worker[w].retry_count = MAX_DISPATCH_RETRIES)
    /\ [][/\ \A w \in Workers :
               (worker[w].pc \in InDispatch /\ worker[w].result)
               => worker'[w].calls = worker[w].calls
          /\ Len(event_ring') <= Len(event_ring)
          /\ event_ring' = SubSeq(event_ring,
                                  Len(event_ring) - Len(event_ring') + 1,
                                  Len(event_ring))]_vars

\* a dispatch has failed three times and the event has been dropped
Witness_C8 ==
    \E w \in Workers :
        /\ worker[w].pc = "for_each"
        /\ worker[w].outcome = "EFAULT"
        /\ worker[w].calls = MAX_DISPATCH_RETRIES

\* C9: during every guest call of a dispatch, ocre_get_current_module on that
\* worker returns the handle of the node the event is dispatched to, whatever
\* the other worker does.
Thm_C9 ==
    \A w \in Workers :
        worker[w].pc = "in_guest"
        => ocre_get_current_module(w) = heap[worker[w].node].inst

\* both workers are inside guest calls, on different modules, one of them in a
\* retry
Witness_C9 ==
    \E w1, w2 \in Workers :
        /\ worker[w1].pc = "in_guest"
        /\ worker[w2].pc = "in_guest"
        /\ worker[w1].node # worker[w2].node
        /\ worker[w1].retry_count > 0

\* C10: a worker's current_module_tls is non-null only between the entry of
\* the retry loop and its end: it is null on every return of
\* process_single_event and while the worker waits on the semaphore or drains
\* the queue.
Thm_C10 ==
    \A w \in Workers :
        current_module_tls[tls_slot(w)] # NULL
        => worker[w].pc \in {"pse_call", "in_guest", "sleep"}

\* a worker has returned from process_single_event after the retries were
\* exhausted, and the other worker waits on the semaphore
Witness_C10 ==
    \E w1, w2 \in Workers :
        /\ worker[w1].pc = "for_each"
        /\ worker[w1].outcome = "EFAULT"
        /\ current_module_tls[tls_slot(w1)] = NULL
        /\ worker[w2].pc = "sem"


\* the number of records event_ring holds when full
QueueCapacity == EVENT_BUFFER_SIZE \div SIZEOF_WASM_EVENT

PostsInFlight == Cardinality({c \in Clients : client[c].pc = "post_give"})

\* C11: N valid posts into an empty queue that nothing drains leave
\* min(N, 64) records queued; the first min(N, 64) posts return 0 and signal
\* the semaphore once each, every later post returns -ENOMEM and leaves the
\* queue and the semaphore count as they were.
Thm_C11 ==
    /\ [](/\ Len(event_ring) = Min(api_calls, QueueCapacity)
          /\ event_sem + PostsInFlight = Len(event_ring)
          /\ ocre_post_event_result(TimerEvent(1)) =
                IF api_calls < QueueCapacity THEN "0" ELSE "-ENOMEM")
    /\ [][(api_calls >= QueueCapacity /\ api_calls' # api_calls)
            => event_ring' = event_ring /\ event_sem' = event_sem]_vars

\* more posts than the queue holds have been made and all have returned
Witness_C11 ==
    /\ api_calls > QueueCapacity
    /\ Len(event_ring) = QueueCapacity
    /\ event_sem = QueueCapacity
    /\ PostsInFlight = 0


Max(a, b) == IF a > b THEN a ELSE b

\* a host thread in ocre_get_resource_count is about to read the counter of a
\* node that has not been freed
ReadsCounter(c, n, t) ==
    /\ client[c].pc = "ctx_use"
    /\ client[c].op = "get_resource_count"
    /\ client[c].stale = "no"
    /\ client[c].node = n
    /\ client[c].t = t

UnregisterStepOf(n) ==
    /\ heap[n].live
    /\ ~heap'[n].live
    /\ common_initialized'
    /\ expected_size' = expected_size - 1

\* the records of the invocations made for resource type t
CallsFor(log, t) == {i \in 1..Len(log) : log[i].type = t}

\* C18: a step of unregister_module that finds handle h invokes each cleanup
\* handler registered at that moment exactly once, with argument h, and each
\* invocation finds h in the registry with its execution environment not yet
\* destroyed; types with no handler get no invocation.
Thm_C18 ==
    [][\A n \in NodeAddrs : UnregisterStepOf(n) =>
          /\ \A t \in ResourceTypes :
                IF cleanup_handlers[t] = NULL
                THEN CallsFor(cleanup_log', t) = {}
                ELSE /\ Cardinality(CallsFor(cleanup_log', t)) = 1
                     /\ \A i \in CallsFor(cleanup_log', t) :
                           /\ cleanup_log'[i].handler = cleanup_handlers[t]
                           /\ cleanup_log'[i].arg = heap[n].inst
                           /\ cleanup_log'[i].found
                           /\ cleanup_log'[i].env_alive
          /\ \A i \in 1..Len(cleanup_log') : cleanup_log'[i].type \in ResourceTypes
          /\ heap[n].exec_env \in exec_envs
          /\ heap[n].exec_env \notin exec_envs'
          /\ n \in Range(module_registry)
          /\ n \notin Range(module_registry')]_vars

\* an unregister_module has run with two cleanup handlers registered and
\* invoked both with the handle it unregistered
Witness_C18 ==
    /\ Len(cleanup_log) = 2
    /\ cleanup_log[1].type # cleanup_log[2].type
    /\ cleanup_log[1].arg \in unregistered
    /\ cleanup_log[2].arg = cleanup_log[1].arg
    /\ \E t \in ResourceTypes : cleanup_handlers[t] = NULL

\* the handles in use are pairwise distinct: no two nodes were allocated for
\* the same handle, and no handle was registered again after its unregistration
DistinctHandles ==
    /\ \A n, m \in NodeAddrs :
          heap[n].live /\ heap[m].live /\ heap[n].inst = heap[m].inst => n = m
    /\ \A n \in NodeAddrs : heap[n].live => heap[n].inst \notin unregistered

\* C19: with register_module and unregister_module called on pairwise distinct
\* handles, the registry has as many entries as there were successful
\* registrations minus unregistrations of registered handles.
CE_C19 ==
    DistinctHandles => Len(module_registry) = expected_size

\* the registry with the entry of node n taken out and nothing else touched
RegistryWithout(list, n) == SelectSeq(list, LAMBDA m : m # n)

\* C20: with distinct handles, the unregister_module(h) that follows
\* register_module(h) leaves the registry as it was before the register: h's
\* entry is gone with its counters and dispatcher bindings, no entry for h
\* remains, and every other module's entry is in the registry, unchanged.
CE_C20 ==
    [][\A n \in NodeAddrs : UnregisterStepOf(n) /\ DistinctHandles =>
          /\ heap'[n] = FreeNode
          /\ \A k \in 1..Len(module_registry') :
                heap'[module_registry'[k]].inst # heap[n].inst
          /\ module_registry' = RegistryWithout(module_registry, n)
          /\ \A m \in NodeAddrs \ {n} : heap'[m] = heap[m]]_vars

\* ocre_common_shutdown has run to its end and the core was not started again
ShutdownReturned ==
    /\ ~common_initialized
    /\ ~event_system_running
    /\ \A c \in Clients : client[c].op # "shutdown"

\* C15: once shutdown has returned, no worker drains the queue, starts a guest
\* call, or takes a step with a pointer to a node that shutdown freed.
CE_C15 ==
    [][ShutdownReturned =>
          \A w \in Workers :
             /\ ~(worker[w].pc = "drain" /\ worker'[w].pc # "drain")
             /\ ~(worker[w].pc # "in_guest" /\ worker'[w].pc = "in_guest")
             /\ ~(worker[w].stale = "shutdown" /\ worker'[w] # worker[w])]_vars

\* the running flag is false and the wake-up loop of shutdown has given its
\* EVENT_THREAD_POOL_SIZE permits
PermitsReleased ==
    /\ ~event_system_running
    /\ \E c \in Clients : client[c].op = "shutdown" /\ client[c].pc = "sd_clean"

AllWorkersExited == \A w \in Workers : worker[w].pc = "exited"

\* C16: once shutdown has cleared the running flag and released its permits,
\* every event processor thread eventually leaves its loop, from whatever
\* point of the loop, semaphore count and queue content shutdown found.
Thm_C16 == PermitsReleased ~> AllWorkersExited

\* shutdown has returned, every thread has exited and the permits were all
\* used up: threads blocked on the semaphore were woken by them
Witness_C16 ==
    /\ ShutdownReturned
    /\ AllWorkersExited
    /\ event_sem = 0

Holds(t) == {m \in Mutexes : k_mutex[m].owner = t}

\* queue mutex, then registry mutex, then context mutex
Rank(m) ==
    IF m = event_mutex THEN 1 ELSE IF m = registry_mutex THEN 2 ELSE 3

\* t is in k_mutex_lock on a mutex another thread owns
Blocked(t) ==
    /\ At(t).op = "k_mutex_lock"
    /\ k_mutex[At(t).m].owner \notin {NULL, t}

\* every thread requests a mutex only while holding mutexes that come before
\* it in the order (or the mutex itself, which it may lock again)
LockOrder ==
    \A t \in Threads : At(t).op = "k_mutex_lock" =>
        \A m \in Holds(t) : m = At(t).m \/ Rank(m) < Rank(At(t).m)

\* some threads each wait for a mutex that another of them owns
Deadlocked ==
    \E S \in SUBSET Threads \ {{}} :
        \A t \in S : Blocked(t) /\ k_mutex[At(t).m].owner \in S

\* C13: every thread acquires the core mutexes in the order queue mutex,
\* registry mutex, context mutex, also inside a cleanup handler that calls
\* decrement_resource_count from unregister_module, and no set of threads is
\* deadlocked on them.
Thm_C13 == LockOrder /\ ~Deadlocked

\* a thread is in the decrement its cleanup handler makes from inside
\* unregister_module or shutdown: it holds registry_mutex twice over and a
\* ctx_mutex, while another thread waits for registry_mutex
Witness_C13 ==
    \E t, u \in Threads, n \in NodeAddrs :
        /\ k_mutex[registry_mutex] = [owner |-> t, lock_count |-> 2]
        /\ k_mutex[ctx_mutex(n)].owner = t
        /\ Blocked(u)
        /\ At(u).m = registry_mutex

InGuestOrSleep(t) == At(t).op \in {"wasm_runtime_call_wasm", "k_sleep"}

\* C14: an event processor thread that is in a guest call or in the sleep
\* between retries holds no core mutex, so no thread waits for a mutex that
\* such a thread owns.
Thm_C14 ==
    \A w \in Workers : InGuestOrSleep(WorkerThread(w)) =>
        /\ Holds(WorkerThread(w)) = {}
        /\ \A u \in Threads : ~(Blocked(u) /\ k_mutex[At(u).m].owner = WorkerThread(w))

\* an event processor thread is in a guest call of module n while a host
\* thread holds registry_mutex and n's ctx_mutex
Witness_C14 ==
    \E w \in Workers, c \in Clients, n \in NodeAddrs :
        /\ At(WorkerThread(w)) = GuestCall(n)
        /\ k_mutex[registry_mutex].owner = HostThread(c)
        /\ k_mutex[ctx_mutex(n)].owner = HostThread(c)

AccessesDispatchers(t, n) ==
    /\ At(t).op \in {"read dispatchers", "read exec_env", "write dispatchers"}
    /\ At(t).node = n

\* C17: a thread that writes or reads a module's dispatchers (or reads its
\* exec_env for the dispatch) holds that module's ctx_mutex, so a read by an
\* event processor thread never overlaps a write by register_dispatcher.
CE_C17 ==
    /\ \A t \in Threads, n \in NodeAddrs :
          AccessesDispatchers(t, n) => k_mutex[ctx_mutex(n)].owner = t
    /\ \A w \in Workers, c \in Clients, n \in NodeAddrs :
          ~(At(WorkerThread(w)) = ReadDispatchers(n)
            /\ At(HostThread(c)) = WriteDispatchers(n))

\* the error kind an errno value stands for
ErrorKind(code) ==
    CASE code = "-EINVAL" -> "Invalid"
      [] code = "-ENODEV" -> "NotInitialized"
      [] code = "-ENOMEM" -> "OutOfMemory"
      [] code = "-ENOENT" -> "NotFound"
      [] code = "-EFAULT" -> "RuntimeError"
      [] code = "-EIO" -> "Io"
      [] OTHER -> "none"

\* in this step a call of op returns (to the caller observed'.ret.c)
ReturnStep(op) ==
    /\ observed'.ret.seq = observed.ret.seq + 1
    /\ observed'.ret.op = op

\* C21: a register_module that fails leaves the registry, the nodes and the
\* execution environments as they were and reports the kind of the failure:
\* OutOfMemory when the allocation failed, RuntimeError when the environment
\* could not be created, NotInitialized only when the core is not up, and
\* Invalid for a null handle whether the core is up or not.
CE_C21 ==
    [][ReturnStep("register_module") /\ observed'.ret.code # "0" =>
          /\ UNCHANGED <<module_registry, heap, exec_envs>>
          /\ LET kind == ErrorKind(observed'.ret.code)
                 cause == observed'.ret.cause
             IN /\ cause = "k_malloc" => kind = "OutOfMemory"
                /\ cause = "wasm_runtime_create_exec_env" => kind = "RuntimeError"
                /\ cause = "none" => kind \in {"Invalid", "NotInitialized"}
                /\ kind = "NotInitialized" => ~common_initialized
                /\ cause = "none" /\ common_initialized => kind = "Invalid"]_vars

\* a record is written to event_ring in this step
PutStep == Len(observed'.posted) = Len(observed.posted) + 1

\* C22: a post_event that fails changes neither the queue nor the semaphore,
\* a null event or an out-of-range type gives Invalid and a core that is not
\* initialized gives NotInitialized; a successful post writes exactly one
\* record, its own, at the tail of the queue and then releases exactly one
\* permit and returns 0, and nothing else adds a record to the queue.
Thm_C22 ==
    [][/\ ReturnStep("post_event") /\ observed'.ret.code # "0" =>
             /\ UNCHANGED <<event_ring, event_sem>>
             /\ ~PutStep
             /\ ErrorKind(observed'.ret.code)
                   \in {"Invalid", "NotInitialized", "OutOfMemory"}
             /\ ErrorKind(observed'.ret.code) = "NotInitialized"
                   => ~common_initialized
             /\ ErrorKind(observed'.ret.code) = "OutOfMemory"
                   => BufferFull(ring_buf_space_get)
       /\ \A e \in PostInputs :
             /\ e = NullEvent => ocre_post_event_result(e) = "-EINVAL"
             /\ e = InvalidTypeEvent => ocre_post_event_result(e) = "-EINVAL"
             /\ e \notin {NullEvent, InvalidTypeEvent} /\ ~common_initialized
                   => ocre_post_event_result(e) = "-ENODEV"
       /\ PutStep =>
             /\ event_ring' = Append(event_ring,
                                     observed'.posted[Len(observed'.posted)])
             /\ event_sem' = event_sem
             /\ \E c \in Clients :
                   client[c].pc = "idle" /\ client'[c].pc = "post_give"
       /\ ReturnStep("post_event") /\ observed'.ret.code = "0" =>
             /\ event_sem' = event_sem + 1
             /\ event_ring' = event_ring
             /\ client[observed'.ret.c].pc = "post_give"
       /\ Len(event_ring') > Len(event_ring) => PutStep]_vars

\* a post has succeeded, the core has been shut down and a later post of a
\* valid event has returned NotInitialized
Witness_C22 ==
    /\ observed.ret.op = "post_event"
    /\ observed.ret.code = "-ENODEV"
    /\ Len(observed.posted) = 1
    /\ ~common_initialized

\* C23: get_event returns 0 and takes exactly the oldest record out of the
\* queue when the queue is not empty and its arguments are valid, returns
\* NotFound and leaves the queue empty when nothing is queued, returns
\* Invalid and takes nothing when the environment is null or an offset is
\* invalid, and never changes the semaphore count.
Thm_C23 ==
    [][/\ ReturnStep("get_event") =>
             /\ event_sem' = event_sem
             /\ observed'.ret.code \in {"0", "-ENOENT", "-EINVAL"}
             /\ observed'.ret.code = "0" =>
                   /\ event_ring # <<>>
                   /\ event_ring' = Tail(event_ring)
                   /\ observed'.removed = Append(observed.removed, Head(event_ring))
             /\ observed'.ret.code = "-ENOENT" =>
                   event_ring = <<>> /\ event_ring' = <<>>
             /\ observed'.ret.code # "0" =>
                   UNCHANGED event_ring /\ observed'.removed = observed.removed
       /\ \A h \in Handles \cup {NULL}, bad \in SUBSET Offsets :
             LET code == ocre_get_event_result(h, bad) IN
             /\ h = NULL \/ bad # {} <=> code = "-EINVAL"
             /\ h # NULL /\ bad = {} /\ event_ring = <<>> => code = "-ENOENT"
             /\ h # NULL /\ bad = {} /\ event_ring # <<>> => code = "0"]_vars

\* two different records were posted and a get_event has returned 0 with the
\* first of them, the second being still queued
Witness_C23 ==
    /\ observed.ret.op = "get_event"
    /\ observed.ret.code = "0"
    /\ Len(observed.posted) = 2
    /\ observed.posted[1] # observed.posted[2]
    /\ observed.removed = <<observed.posted[1]>>
    /\ event_ring = <<observed.posted[2]>>

\* C24: events leave the queue in posting order and in whole records: a
\* drain by an event processor thread removes exactly the min(k, 16) oldest
\* of the k records queued, in order, and the batches and get_event pops put
\* one after the other in removal order, followed by what is still queued,
\* are the sequence of successful posts.
InPostingOrder == observed.posted = observed.removed \o event_ring

DrainStep(w) == worker[w].pc = "drain" /\ worker'[w].pc # "drain"

Thm_C24 ==
    /\ []InPostingOrder
    /\ [][\A w \in Workers :
             DrainStep(w) =>
                LET k == Len(event_ring)
                    n == IF k < EVENT_BATCH_SIZE THEN k ELSE EVENT_BATCH_SIZE
                IN /\ worker'[w].batch = SubSeq(event_ring, 1, n)
                   /\ event_ring' = SubSeq(event_ring, n + 1, k)
                   /\ observed'.removed = observed.removed \o worker'[w].batch]_vars

\* a thread has drained a full batch of 16 out of more than 16 queued records,
\* after a get_event took the first record posted
Witness_C24 ==
    /\ Len(observed.removed) = EVENT_BATCH_SIZE + 1
    /\ \E w \in Workers : Len(worker[w].batch) = EVENT_BATCH_SIZE
    /\ event_ring # <<>>
    /\ \A i \in 1..Len(observed.posted) : observed.posted[i].id = i

\* C27: no lost wakeup: while the core is running, whenever the queue holds
\* at least one event, the semaphore count plus the number of event processor
\* threads that have taken a permit and not yet drained plus the number of
\* producers that have written a record and not yet given the semaphore is at
\* least 1; so the threads are never all blocked on the semaphore with an
\* event queued and no give to come.
PermitsInHand ==
    event_sem
    + Cardinality({w \in Workers : worker[w].pc = "drain"})
    + Cardinality({c \in Clients : client[c].pc = "post_give"})

AllWaitOnSemaphore ==
    /\ \A w \in Workers : worker[w].pc = "sem"
    /\ event_sem = 0
    /\ \A c \in Clients : client[c].pc # "post_give"

Thm_C27 ==
    (event_system_running /\ event_ring # <<>>) =>
        /\ PermitsInHand >= 1
        /\ ~AllWaitOnSemaphore

\* the count of the semaphore is 0 with records queued: the one permit is in
\* the hands of a thread that has not drained yet, the other thread waits
Witness_C27 ==
    /\ event_system_running
    /\ event_ring # <<>>
    /\ event_sem = 0
    /\ \A c \in Clients : client[c].pc # "post_give"
    /\ \E w \in Workers : worker[w].pc = "drain"
    /\ \E w \in Workers : worker[w].pc = "sem"
    /\ observed.removed # <<>>

\* C25: after register_cleanup_handler(t, f) and then
\* register_cleanup_handler(t, g), every later cleanup of a module (by
\* ocre_cleanup_module_resources or ocre_unregister_module) invokes g and
\* never f for type t, the handlers of the other types being unaffected; a
\* call with an invalid type or a null handler returns Invalid and leaves the
\* table as it was.
RECURSIVE LatestHandler(_, _)
LatestHandler(history, t) ==
    IF history = <<>> THEN NULL
    ELSE IF history[Len(history)].type = t THEN history[Len(history)].handler
    ELSE LatestHandler(SubSeq(history, 1, Len(history) - 1), t)

CleanupStep ==
    /\ ReturnStep("unregister_module") \/ ReturnStep("cleanup_module_resources")
    /\ observed'.ret.cause = "none"

ShutdownCallStep(c) ==
    /\ client[c].pc = "idle"
    /\ \/ client'[c].op = "shutdown"
       \/ ReturnStep("shutdown") /\ observed'.ret.c = c

Thm_C26 ==
    [][\A c \in Clients :
          (ShutdownCallStep(c) /\ ~common_initialized) =>
             /\ client'[c].pc = "idle"
             /\ UNCHANGED <<common_initialized, event_system_running, event_sem,
                            event_ring, module_registry, heap, exec_envs,
                            current_module_tls, worker, cleanup_handlers,
                            cleanup_log, posts, unregistered>>]_vars

\* a shutdown has returned at its first test after the core had been
\* initialized, had accepted a post and had been shut down
Witness_C26 ==
    /\ observed.ret.op = "shutdown"
    /\ observed.ret.cause = "not_initialized"
    /\ ~common_initialized
    /\ ~event_system_running
    /\ observed.posted # <<>>

\* C28: if init fails because creating thread i fails, the shutdown it calls
\* undoes the partial start: when init returns the error the running flag is
\* false, the threads 0..i-1 already started have been signalled to stop, and
\* the core is left not initialized.
CE_C28 ==
    [][(ReturnStep("init") /\ observed'.ret.cause = "core_thread_create") =>
          /\ ~common_initialized'
          /\ ~event_system_running'
          /\ event_sem' >= Cardinality({w \in Workers : worker'[w].pc = "start"})
      ]_vars

====
